---- MODULE Spec2Model ----
(***************************************************************************)
(* IncrementalIngestionEngine (src/unnamed/part_000): the tick-driven      *)
(* lifecycle state machine (handleNextAction), the burst loop              *)
(* (ingestOneBurst) and the per-page mark/delta step (mark).               *)
(*                                                                         *)
(* Every `await` of the engine is one step of a process, so that other     *)
(* processes, the clock, the cancellation signal, a failure of the awaited *)
(* call and a kill of the process can fall between any two of them.  The   *)
(* record store (IncrementalIngestionDatabaseManager), the source adapter  *)
(* and the target store are collaborators whose code is not part of the    *)
(* sources; they are modelled from their documented contract.              *)
(***************************************************************************)
EXTENDS Integers, Sequences, FiniteSets, TLC

\* ------------------------------------------------------------------ bounds
MaxPages == 2        \* the source has 1..MaxPages pages
MaxIngestions == 2   \* ingestion records ever created for the provider
MaxFaults == 2       \* failed calls and process kills in one behaviour
MaxAttempts == 11    \* attempts values the backoff function is applied to

\* ------------------------------------------------------------ plain values
NoCursor == << >>                 \* `void 0`: no cursor; page n's cursor is <<n>>
NoMark == [exists |-> FALSE, cursor |-> NoCursor, sequence |-> -1]   \* getLastMark found none
ProviderName == "provider"        \* provider.getProviderName()
NoError == [kind |-> "none", message |-> ""]
CancelError == [kind |-> "cancellation", message |-> "CANCEL"]
OrdinaryError == [kind |-> "ordinary", message |-> "boom"]
\* an ordinary failure whose message text happens to be 'CANCEL'
LookalikeError == [kind |-> "ordinary", message |-> "CANCEL"]
Errors == {CancelError, OrdinaryError, LookalikeError}

Min(a, b) == IF a <= b THEN a ELSE b

\* DurationObjectUnits, and luxon's Duration.fromObject(d).as('milliseconds')
Dur(h, m, s) == [hours |-> h, minutes |-> m, seconds |-> s]
AsMilliseconds(d) == d.hours * 3600000 + d.minutes * 60000 + d.seconds * 1000

\* the table the constructor installs when options.backoff is missing
DefaultBackoff == << Dur(0, 1, 0), Dur(0, 5, 0), Dur(0, 30, 0), Dur(3, 0, 0) >>

\* options.backoff: given, or left out
Given(table) == [given |-> TRUE, table |-> table]
NotGiven == [given |-> FALSE, table |-> << >>]

\* constructor: this.backoff = options.backoff ?? [1m, 5m, 30m, 3h]
ConstructBackoff(optionsBackoff) == IF optionsBackoff.given THEN optionsBackoff.table ELSE DefaultBackoff

\* options.backoff as callers supply it to the engines of the state machine
EngineBackoffOptions == { NotGiven, Given(<< Dur(0, 0, 30) >>) }
\* options.backoff as drawn for the backoff function on its own
AllBackoffOptions == EngineBackoffOptions \cup { Given(<< >>), Given(<< Dur(0, 0, 30), Dur(0, 2, 0) >>), Given(<< Dur(0, 5, 0), Dur(0, 1, 0) >>) }
\* options.restLength
RestLengths == { Dur(0, 10, 0) }

\* Math.min(this.backoff.length - 1, attempts): a JavaScript (0-based) index
BackoffIndexOffByOne(len, attempts) == Min(len, attempts)
BackoffIndexUnclamped(len, attempts) == attempts
BackoffIndex(len, attempts) == Min(len - 1, attempts)

\* this.backoff[i] of a JavaScript array is undefined outside 0..length-1,
\* and Duration.fromObject(undefined) throws
BackoffDefined(table, attempts) == LET i == BackoffIndex(Len(table), attempts) IN i >= 0 /\ i < Len(table)

\* Duration.fromObject(this.backoff[...]).as('milliseconds')
BackoffLength(table, attempts) == AsMilliseconds(table[BackoffIndex(Len(table), attempts) + 1])

\* the catch clause's test: error.message && error.message === 'CANCEL'
IsCancelNever(error) == FALSE
IsCancel(error) == error.message # "" /\ error.message = "CANCEL"

\* Date.now() > nextActionAt
WaitOverInverted(t, nextActionAt) == t < nextActionAt
WaitOverAtBoundary(t, nextActionAt) == t >= nextActionAt
WaitOver(t, nextActionAt) == t > nextActionAt

\* ingestOneBurst: cursor = lastMark ? lastMark.cursor : void 0
StartCursorFromScratch(lastMark) == NoCursor
StartCursor(lastMark) == IF lastMark.exists THEN lastMark.cursor ELSE NoCursor

\* ingestOneBurst: sequence = lastMark ? lastMark.sequence + 1 : 0
StartSequenceRepeatsLast(lastMark) == IF lastMark.exists THEN lastMark.sequence ELSE 0
StartSequence(lastMark) == IF lastMark.exists THEN lastMark.sequence + 1 ELSE 0

\* the burst loop's exit test: signal.aborted || next.done
LoopBreakOnDoneOnly(aborted, done) == done
LoopBreak(aborted, done) == aborted \/ done

\* mark: removed = done ? [] : await computeRemoved(...)
NeedsComputeRemovedAlways(done) == TRUE
NeedsComputeRemoved(done) == ~done

\* mark: every added entity carries the provider's annotation
Tag(entities) == [i \in 1..Len(entities) |-> [entities[i] EXCEPT !.annotation = ProviderName]]

\* ------------------------------------------------------------------- state
VARIABLES
  procs,        \* the processes that run the engine for the provider
  backoff,      \* this.backoff
  restLength,   \* this.restLength
  numPages,     \* source adapter: the pages 1..numPages, the last one done
  emptyPage,    \* source adapter: the page that holds no entity
  now,          \* Date.now(), in milliseconds
  ingestions,   \* record store: the ingestion records, ingestions[id]
  marks,        \* record store: the marks in the order they were created
  markIds,      \* the mark ids v4() has handed out
  applied,      \* target store: the mutations applyMutation received, in order,
                \* since the youngest ingestion record was created
  proc,         \* each process's position in tick() and its local variables
  tick,         \* history: what each process's current or last tick did
  faults,       \* history: number of failed calls and of kills
  cutAfterMark, \* history: a call failed or the process was killed after a
                \* page's createMark and before its applyMutation returned
  inFlight,     \* history: the page a killed process had fetched and not marked
  streak,       \* history: the bursts of the active ingestion that failed and were
                \* sent to backoff, in a row up to now
  bkOptions,    \* backoff function on its own: the options.backoff drawn
  bkDelays      \* backoff function on its own: delays for attempts 0, 1, ...

storeVars == << ingestions, marks, markIds, applied >>
configVars == << procs, backoff, restLength, numPages, emptyPage >>
historyVars == << faults, cutAfterMark, inFlight, streak >>
bkVars == << bkOptions, bkDelays >>
vars == << configVars, now, storeVars, proc, tick, historyVars, bkVars >>

\* ---------------------------------------------------------- source adapter
PageCursor(page) == << page >>
\* the entities of a page
PageEntities(page) == IF page = emptyPage \/ page > numPages THEN << >> ELSE << [ref |-> page, annotation |-> "none"] >>
\* provider.next(context, cursor): the page after the cursor's; asked for a
\* page beyond the last one the adapter answers an empty page that is done
SourceNext(cursor) == LET page == IF cursor = NoCursor THEN 1 ELSE Min(cursor[1] + 1, numPages + 1) IN [page |-> page, entities |-> PageEntities(page), cursor |-> PageCursor(Min(page, numPages)), done |-> page >= numPages]
NoPage == [page |-> 0, entities |-> << >>, cursor |-> NoCursor, done |-> FALSE]

\* ------------------------------------------------------------- record store
OpenIds == { id \in 1..Len(ingestions) : ingestions[id].open }
\* getCurrentIngestionRecord(providerName): the provider's active record
CurrentId == CHOOSE id \in OpenIds : TRUE
NewRecord == [next_action |-> "ingest", next_action_at |-> now, attempts |-> 0, status |-> "interstitial", last_error |-> "", open |-> TRUE]
MarksOf(id) == SelectSeq(marks, LAMBDA m : m.ingestion_id = id)
\* getLastMark(ingestionId): the mark of the highest sequence, if any
LastMark(id) == LET ms == MarksOf(id) IN IF ms = << >> THEN NoMark ELSE LET i == CHOOSE i \in 1..Len(ms) : \A j \in 1..Len(ms) : ms[j].sequence < ms[i].sequence \/ (ms[j].sequence = ms[i].sequence /\ j <= i) IN [exists |-> TRUE, cursor |-> ms[i].cursor, sequence |-> ms[i].sequence]
StoreSetBursting(id) == [ingestions EXCEPT ![id].status = "bursting"]
StoreSetInterstitial(id) == [ingestions EXCEPT ![id].status = "interstitial", ![id].attempts = 0]
StoreSetResting(id, length) == [ingestions EXCEPT ![id].next_action = "rest", ![id].next_action_at = now + AsMilliseconds(length), ![id].attempts = 0, ![id].status = "resting"]
StoreSetBackoff(id, attempts, error, delayMs) == [ingestions EXCEPT ![id].next_action = "backoff", ![id].attempts = attempts + 1, ![id].last_error = error.message, ![id].next_action_at = now + delayMs, ![id].status = "backing off"]
StoreSetCanceling(id, reason) == [ingestions EXCEPT ![id].next_action = "cancel", ![id].last_error = reason, ![id].status = "canceling"]
\* a finished row is never the provider's active record again; of its
\* fields the model keeps how it ended
Finished(how) == [next_action |-> how, next_action_at |-> 0, attempts |-> 0, status |-> "complete", last_error |-> "", open |-> FALSE]
StoreSetCanceled(id) == [ingestions EXCEPT ![id] = Finished("nothing (canceled)")]
StoreSetComplete(id) == [ingestions EXCEPT ![id] = Finished("nothing (done)")]
StoreSetIngesting(id) == [ingestions EXCEPT ![id].next_action = "ingest", ![id].status = "interstitial"]
\* clearFinishedIngestions(providerName): the rows of finished ingestions go,
\* and their marks with them
StoreClearFinishedRows == [id \in 1..Len(ingestions) |-> IF ingestions[id].open THEN ingestions[id] ELSE [ingestions[id] EXCEPT !.status = "purged"]]
StoreClearFinishedMarks == SelectSeq(marks, LAMBDA m : ingestions[m.ingestion_id].open)
\* computeRemoved(providerName, ingestionId): the reconciliation query; it
\* answers the entities that the marks of the provider's earlier ingestions
\* hold and the marks of this ingestion do not
RECURSIVE Flatten(_)
Flatten(lists) == IF lists = << >> THEN << >> ELSE Head(lists) \o Flatten(Tail(lists))
StoreComputeRemoved(id) == LET mine == { marks[i].entities[1].ref : i \in { k \in 1..Len(marks) : marks[k].ingestion_id = id /\ marks[k].entities # << >> } } IN LET others == SelectSeq(marks, LAMBDA m : m.ingestion_id # id /\ m.entities # << >> /\ m.entities[1].ref \notin mine) IN Flatten([i \in 1..Len(others) |-> Tag(others[i].entities)])

\* ---------------------------------------------------------------- processes
NoResult == [found |-> FALSE, ingestionId |-> 0, nextAction |-> "", attempts |-> 0, nextActionAt |-> 0]
IdleProc == [pc |-> "idle", aborted |-> FALSE, result |-> NoResult, cursor |-> NoCursor, sequence |-> 0, next |-> NoPage, done |-> FALSE, count |-> 0, markId |-> 0, removed |-> << >>, queried |-> FALSE, error |-> NoError, backoffLength |-> 0]
NoTick == [outcome |-> "none", action |-> "", ingestionId |-> 0, attempts |-> 0, deadline |-> 0, dispatchNow |-> 0, writes |-> << >>, writeNow |-> 0, burst |-> FALSE, fresh |-> FALSE, fetched |-> 0, marked |-> 0, deltas |-> 0, sawAbort |-> FALSE, earlyAbort |-> FALSE, failedCall |-> "", error |-> NoError]

\* the calls made inside handleNextAction's try block
TryPcs == { "setProviderBursting", "getLastMark", "firstNext", "loopNext", "createMark", "createMarkEntities", "computeRemoved", "applyMutation", "setProviderResting", "setProviderInterstitial" }
\* ingestOneBurst is running
BurstPcs == { "getLastMark", "firstNext", "loopNext", "createMark", "createMarkEntities", "computeRemoved", "applyMutation" }
\* mark() has persisted the page's mark and not yet applied its delta
MarkedNotAppliedPcs == { "createMarkEntities", "computeRemoved", "applyMutation" }
\* every awaited call of a tick
CallPcs == TryPcs \cup { "getCurrentIngestionRecord", "createProviderIngestionRecord", "clearFinishedIngestions", "setProviderComplete", "setProviderIngesting", "setProviderCanceled", "setProviderCanceling", "setProviderBackoff" }

TypeOK == /\ \A p \in procs : proc[p].pc \in CallPcs \cup { "idle", "dispatch" }
          /\ Cardinality(OpenIds) <= 1
          /\ faults <= MaxFaults

\* --------------------------------------------------------------- the start
NoneInFlight == [ingestion_id |-> 0, page |-> 0]
InitStore == /\ now = 0
             /\ ingestions = << >> /\ marks = << >> /\ markIds = 0 /\ applied = << >>
             /\ faults = 0 /\ cutAfterMark = FALSE /\ streak = 0
             /\ inFlight = NoneInFlight

\* the sources drawn: the page before the last one holds no entity
EmptyPageOf(pages) == pages - 1

\* new IncrementalIngestionEngine(options), by each of `ps`
Construct(ps, optionsBackoff, optionsRestLength, pages, empty) == /\ procs = ps
                                                                 /\ backoff = ConstructBackoff(optionsBackoff)
                                                                 /\ restLength = optionsRestLength
                                                                 /\ numPages = pages /\ emptyPage = empty
                                                                 /\ proc = [p \in ps |-> IdleProc]
                                                                 /\ tick = [p \in ps |-> NoTick]

BkIdle == bkOptions = NotGiven /\ bkDelays = << >>

Init == /\ \E ob \in EngineBackoffOptions, rl \in RestLengths, n \in 1..MaxPages : Construct({1}, ob, rl, n, EmptyPageOf(n))
        /\ InitStore
        /\ BkIdle

\* ------------------------------------------------------- steps of one tick
Running(p) == p \in procs /\ proc[p].pc # "idle"
At(p, pc) == p \in procs /\ proc[p].pc = pc
Id(p) == proc[p].result.ingestionId

\* the tick returns to the scheduler
Returned(t) == [t EXCEPT !.outcome = "returned"]
\* a call that changed the record store returned
Wrote(t, call) == [t EXCEPT !.writes = Append(@, call), !.writeNow = now]

\* taskFn(signal): the scheduler starts a tick
BeginTick(p) == /\ At(p, "idle")
                /\ proc' = [proc EXCEPT ![p] = [IdleProc EXCEPT !.pc = "getCurrentIngestionRecord"]]
                /\ tick' = [tick EXCEPT ![p] = [NoTick EXCEPT !.outcome = "running"]]
                /\ UNCHANGED << configVars, now, storeVars, historyVars, bkVars >>

\* getCurrentAction: manager.getCurrentIngestionRecord(providerName)
GetCurrentIngestionRecord(p) == /\ At(p, "getCurrentIngestionRecord")
                                /\ proc' = [proc EXCEPT ![p].pc = IF OpenIds # {} THEN "dispatch" ELSE "createProviderIngestionRecord", ![p].result = IF OpenIds # {} THEN [found |-> TRUE, ingestionId |-> CurrentId, nextAction |-> ingestions[CurrentId].next_action, attempts |-> ingestions[CurrentId].attempts, nextActionAt |-> ingestions[CurrentId].next_action_at] ELSE NoResult]
                                /\ UNCHANGED << configVars, now, storeVars, tick, historyVars, bkVars >>

\* getCurrentAction: manager.createProviderIngestionRecord(providerName),
\* which answers nothing when the provider already has an active record
CreateProviderIngestionRecord(p) == /\ At(p, "createProviderIngestionRecord")
                                    /\ OpenIds # {} \/ Len(ingestions) < MaxIngestions
                                    /\ ingestions' = IF OpenIds # {} THEN ingestions ELSE Append(ingestions, NewRecord)
                                    /\ proc' = [proc EXCEPT ![p].pc = "dispatch", ![p].result = IF OpenIds # {} THEN NoResult ELSE [found |-> TRUE, ingestionId |-> Len(ingestions) + 1, nextAction |-> "ingest", attempts |-> 0, nextActionAt |-> now]]
                                    /\ tick' = [tick EXCEPT ![p] = IF OpenIds # {} THEN @ ELSE Wrote(@, "createProviderIngestionRecord")]
                                    /\ applied' = IF OpenIds # {} THEN applied ELSE << >>
                                    /\ streak' = IF OpenIds # {} THEN streak ELSE 0
                                    /\ UNCHANGED << configVars, now, marks, markIds, faults, cutAfterMark, inFlight, bkVars >>

\* handleNextAction: where the switch on nextAction leads
BranchDefaultIngests(r, t) == IF ~r.found THEN "idle" ELSE CASE r.nextAction = "rest" -> IF WaitOver(t, r.nextActionAt) THEN "clearFinishedIngestions" ELSE "idle"
                                                           [] r.nextAction = "backoff" -> IF WaitOver(t, r.nextActionAt) THEN "setProviderIngesting" ELSE "idle"
                                                           [] r.nextAction = "cancel" -> "setProviderCanceled"
                                                           [] OTHER -> "setProviderBursting"
BranchCancelIngests(r, t) == IF ~r.found THEN "idle" ELSE CASE r.nextAction = "rest" -> IF WaitOver(t, r.nextActionAt) THEN "clearFinishedIngestions" ELSE "idle"
                                                          [] r.nextAction \in { "ingest", "cancel" } -> "setProviderBursting"
                                                          [] r.nextAction = "backoff" -> IF WaitOver(t, r.nextActionAt) THEN "setProviderIngesting" ELSE "idle"
                                                          [] OTHER -> "idle"
Branch(r, t) == IF ~r.found THEN "idle" ELSE CASE r.nextAction = "rest" -> IF WaitOver(t, r.nextActionAt) THEN "clearFinishedIngestions" ELSE "idle"
                                              [] r.nextAction = "ingest" -> "setProviderBursting"
                                              [] r.nextAction = "backoff" -> IF WaitOver(t, r.nextActionAt) THEN "setProviderIngesting" ELSE "idle"
                                              [] r.nextAction = "cancel" -> "setProviderCanceled"
                                              [] OTHER -> "idle"

\* handleNextAction: the switch, reading Date.now()
Dispatch(p) == /\ At(p, "dispatch")
               /\ proc' = [proc EXCEPT ![p] = IF Branch(proc[p].result, now) = "idle" THEN IdleProc ELSE [proc[p] EXCEPT !.pc = Branch(proc[p].result, now)]]
               /\ tick' = [tick EXCEPT ![p] = [IF Branch(proc[p].result, now) = "idle" THEN Returned(@) ELSE @ EXCEPT !.action = proc[p].result.nextAction, !.ingestionId = Id(p), !.attempts = proc[p].result.attempts, !.deadline = proc[p].result.nextActionAt, !.dispatchNow = now]]
               /\ UNCHANGED << configVars, now, storeVars, historyVars, bkVars >>

\* case 'rest', rest period over: manager.clearFinishedIngestions(providerName)
ClearFinishedIngestions(p) == /\ At(p, "clearFinishedIngestions")
                              /\ ingestions' = StoreClearFinishedRows
                              /\ marks' = StoreClearFinishedMarks
                              /\ proc' = [proc EXCEPT ![p].pc = "setProviderComplete"]
                              /\ tick' = [tick EXCEPT ![p] = Wrote(@, "clearFinishedIngestions")]
                              /\ UNCHANGED << configVars, now, markIds, applied, historyVars, bkVars >>

\* case 'rest', rest period over: manager.setProviderComplete(ingestionId)
SetProviderComplete(p) == /\ At(p, "setProviderComplete")
                          /\ ingestions' = StoreSetComplete(Id(p))
                          /\ proc' = [proc EXCEPT ![p] = IdleProc]
                          /\ tick' = [tick EXCEPT ![p] = Returned(Wrote(@, "setProviderComplete"))]
                          /\ UNCHANGED << configVars, now, marks, markIds, applied, historyVars, bkVars >>

\* case 'backoff', backoff over: manager.setProviderIngesting(ingestionId)
SetProviderIngesting(p) == /\ At(p, "setProviderIngesting")
                           /\ ingestions' = StoreSetIngesting(Id(p))
                           /\ proc' = [proc EXCEPT ![p] = IdleProc]
                           /\ tick' = [tick EXCEPT ![p] = Returned(Wrote(@, "setProviderIngesting"))]
                           /\ UNCHANGED << configVars, now, marks, markIds, applied, historyVars, bkVars >>

\* case 'cancel': manager.setProviderCanceled(ingestionId)
SetProviderCanceled(p) == /\ At(p, "setProviderCanceled")
                          /\ ingestions' = StoreSetCanceled(Id(p))
                          /\ proc' = [proc EXCEPT ![p] = IdleProc]
                          /\ tick' = [tick EXCEPT ![p] = Returned(Wrote(@, "setProviderCanceled"))]
                          /\ UNCHANGED << configVars, now, marks, markIds, applied, historyVars, bkVars >>

\* case 'ingest': manager.setProviderBursting(ingestionId)
SetProviderBursting(p) == /\ At(p, "setProviderBursting")
                          /\ ingestions' = StoreSetBursting(Id(p))
                          /\ proc' = [proc EXCEPT ![p].pc = "getLastMark"]
                          /\ tick' = [tick EXCEPT ![p] = [Wrote(@, "setProviderBursting") EXCEPT !.burst = TRUE]]
                          /\ UNCHANGED << configVars, now, marks, markIds, applied, historyVars, bkVars >>

\* ingestOneBurst: manager.getLastMark(id), then cursor and sequence
GetLastMark(p) == /\ At(p, "getLastMark")
                  /\ proc' = [proc EXCEPT ![p].pc = "firstNext", ![p].cursor = StartCursor(LastMark(Id(p))), ![p].sequence = StartSequence(LastMark(Id(p))), ![p].count = 0, ![p].done = FALSE]
                  /\ tick' = [tick EXCEPT ![p].fresh = ~LastMark(Id(p)).exists]
                  /\ UNCHANGED << configVars, now, storeVars, historyVars, bkVars >>

\* ingestOneBurst, inside around: next = provider.next(context, cursor)
FirstNext(p) == /\ At(p, "firstNext")
                /\ proc' = [proc EXCEPT ![p].pc = "createMark", ![p].next = SourceNext(proc[p].cursor), ![p].count = @ + 1]
                /\ tick' = [tick EXCEPT ![p].fetched = @ + 1]
                /\ UNCHANGED << configVars, now, storeVars, historyVars, bkVars >>

\* ingestOneBurst, the loop's else branch:
\* next = provider.next(context, next.cursor); count++; sequence++
LoopNext(p) == /\ At(p, "loopNext")
               /\ proc' = [proc EXCEPT ![p].pc = "createMark", ![p].next = SourceNext(proc[p].next.cursor), ![p].count = @ + 1, ![p].sequence = @ + 1]
               /\ tick' = [tick EXCEPT ![p].fetched = @ + 1]
               /\ UNCHANGED << configVars, now, storeVars, historyVars, bkVars >>

\* where mark() goes after createMark
AfterCreateMark(entities, done) == IF Len(entities) > 0 THEN "createMarkEntities" ELSE IF NeedsComputeRemoved(done) THEN "computeRemoved" ELSE "applyMutation"

\* the loop's done = next.done, then mark: manager.createMark({record})
CreateMark(p) == /\ At(p, "createMark")
                 /\ markIds' = markIds + 1
                 /\ marks' = Append(marks, [id |-> markIds + 1, ingestion_id |-> Id(p), cursor |-> proc[p].next.cursor, sequence |-> proc[p].sequence, entities |-> << >>])
                 /\ proc' = [proc EXCEPT ![p].pc = AfterCreateMark(proc[p].next.entities, proc[p].next.done), ![p].done = proc[p].next.done, ![p].markId = markIds + 1, ![p].removed = << >>, ![p].queried = FALSE]
                 /\ tick' = [tick EXCEPT ![p].marked = @ + 1]
                 /\ inFlight' = NoneInFlight
                 /\ UNCHANGED << configVars, now, ingestions, applied, faults, cutAfterMark, streak, bkVars >>

\* mark: if (entities.length > 0) manager.createMarkEntities(markId, entities)
CreateMarkEntities(p) == /\ At(p, "createMarkEntities")
                         /\ marks' = [i \in 1..Len(marks) |-> IF marks[i].id = proc[p].markId THEN [marks[i] EXCEPT !.entities = proc[p].next.entities] ELSE marks[i]]
                         /\ proc' = [proc EXCEPT ![p].pc = IF NeedsComputeRemoved(proc[p].done) THEN "computeRemoved" ELSE "applyMutation"]
                         /\ UNCHANGED << configVars, now, ingestions, markIds, applied, tick, historyVars, bkVars >>

\* mark: removed = await manager.computeRemoved(providerName, id)
ComputeRemoved(p) == /\ At(p, "computeRemoved")
                     /\ proc' = [proc EXCEPT ![p].pc = "applyMutation", ![p].removed = StoreComputeRemoved(Id(p)), ![p].queried = TRUE]
                     /\ UNCHANGED << configVars, now, storeVars, tick, historyVars, bkVars >>

\* where the burst goes after a page is marked: round the loop, or out of
\* it and back in handleNextAction with `done`
AfterMarkAlwaysDone(aborted, done) == IF LoopBreak(aborted, done) THEN "setProviderResting" ELSE "loopNext"
AfterMark(aborted, done) == IF LoopBreak(aborted, done) THEN IF done THEN "setProviderResting" ELSE "setProviderInterstitial" ELSE "loopNext"

\* mark: connection.applyMutation({type: 'delta', added, removed}), then the
\* loop's test of signal.aborted || next.done
ApplyMutation(p) == /\ At(p, "applyMutation")
                    /\ applied' = Append(applied, [type |-> "delta", added |-> Tag(proc[p].next.entities), removed |-> proc[p].removed, ingestion_id |-> Id(p), page |-> proc[p].next.page, queried |-> proc[p].queried, reconciled |-> StoreComputeRemoved(Id(p))])
                    /\ proc' = [proc EXCEPT ![p].pc = AfterMark(proc[p].aborted, proc[p].next.done)]
                    /\ tick' = [tick EXCEPT ![p].sawAbort = proc[p].aborted, ![p].deltas = @ + 1]
                    /\ UNCHANGED << configVars, now, ingestions, marks, markIds, historyVars, bkVars >>

\* burst done: manager.setProviderResting(ingestionId, this.restLength)
SetProviderResting(p) == /\ At(p, "setProviderResting")
                         /\ ingestions' = StoreSetResting(Id(p), restLength)
                         /\ proc' = [proc EXCEPT ![p] = IdleProc]
                         /\ tick' = [tick EXCEPT ![p] = Returned(Wrote(@, "setProviderResting"))]
                         /\ streak' = 0
                         /\ UNCHANGED << configVars, now, marks, markIds, applied, faults, cutAfterMark, inFlight, bkVars >>

\* burst not done: manager.setProviderInterstitial(ingestionId)
SetProviderInterstitial(p) == /\ At(p, "setProviderInterstitial")
                              /\ ingestions' = StoreSetInterstitial(Id(p))
                              /\ proc' = [proc EXCEPT ![p] = IdleProc]
                              /\ tick' = [tick EXCEPT ![p] = Returned(Wrote(@, "setProviderInterstitial"))]
                              /\ streak' = 0
                              /\ UNCHANGED << configVars, now, marks, markIds, applied, faults, cutAfterMark, inFlight, bkVars >>

\* the catch clause: where an error thrown inside the try block leads
Catch(error, table, attempts) == IF IsCancel(error) THEN "setProviderCanceling" ELSE IF BackoffDefined(table, attempts) THEN "setProviderBackoff" ELSE "idle"

\* an awaited call throws `e`: inside the try block the catch clause takes
\* it, anywhere else it leaves handleNextAction and taskFn rethrows it
Fail(p, e) == /\ Running(p) /\ proc[p].pc \in CallPcs
              /\ faults < MaxFaults
              /\ faults' = faults + 1
              /\ cutAfterMark' = (cutAfterMark \/ proc[p].pc \in MarkedNotAppliedPcs)
              /\ IF proc[p].pc \in TryPcs /\ Catch(e, backoff, proc[p].result.attempts) # "idle"
                 THEN /\ proc' = [proc EXCEPT ![p].pc = Catch(e, backoff, proc[p].result.attempts), ![p].error = e, ![p].backoffLength = IF IsCancel(e) THEN 0 ELSE BackoffLength(backoff, proc[p].result.attempts)]
                      /\ tick' = [tick EXCEPT ![p].error = e, ![p].failedCall = proc[p].pc]
                 ELSE /\ proc' = [proc EXCEPT ![p] = IdleProc]
                      /\ tick' = [tick EXCEPT ![p] = [NoTick EXCEPT !.outcome = "raised", !.action = tick[p].action, !.error = e, !.failedCall = proc[p].pc]]
              /\ UNCHANGED << configVars, now, storeVars, inFlight, streak, bkVars >>

\* catch, message 'CANCEL': manager.setProviderCanceling(ingestionId, message)
SetProviderCanceling(p) == /\ At(p, "setProviderCanceling")
                           /\ ingestions' = StoreSetCanceling(Id(p), proc[p].error.message)
                           /\ proc' = [proc EXCEPT ![p] = IdleProc]
                           /\ tick' = [tick EXCEPT ![p] = Returned(Wrote(@, "setProviderCanceling"))]
                           /\ UNCHANGED << configVars, now, marks, markIds, applied, historyVars, bkVars >>

\* catch, any other error:
\* manager.setProviderBackoff(ingestionId, attempts, error, backoffLength)
SetProviderBackoff(p) == /\ At(p, "setProviderBackoff")
                         /\ ingestions' = StoreSetBackoff(Id(p), proc[p].result.attempts, proc[p].error, proc[p].backoffLength)
                         /\ proc' = [proc EXCEPT ![p] = IdleProc]
                         /\ tick' = [tick EXCEPT ![p] = Returned(Wrote(@, "setProviderBackoff"))]
                         /\ streak' = streak + 1
                         /\ UNCHANGED << configVars, now, marks, markIds, applied, faults, cutAfterMark, inFlight, bkVars >>

\* ------------------------------------------------------------ environment
\* the scheduler aborts the signal of a running tick; the engine reads the
\* signal only in the burst loop, so an abort before the burst starts is the
\* same as one at the burst's first step
Abort(p) == /\ Running(p) /\ proc[p].pc \in BurstPcs /\ ~proc[p].aborted
            /\ proc' = [proc EXCEPT ![p].aborted = TRUE]
            /\ tick' = [tick EXCEPT ![p].earlyAbort = (proc[p].count = 0)]
            /\ UNCHANGED << configVars, now, storeVars, historyVars, bkVars >>

\* the process dies and restarts: everything it held in memory is gone
Kill(p) == /\ Running(p)
           /\ faults < MaxFaults
           /\ faults' = faults + 1
           /\ cutAfterMark' = (cutAfterMark \/ proc[p].pc \in MarkedNotAppliedPcs)
           /\ inFlight' = IF proc[p].pc = "createMark" THEN [ingestion_id |-> Id(p), page |-> proc[p].next.page] ELSE inFlight
           /\ proc' = [proc EXCEPT ![p] = IdleProc]
           /\ tick' = [tick EXCEPT ![p] = [NoTick EXCEPT !.outcome = "killed"]]
           /\ UNCHANGED << configVars, now, storeVars, streak, bkVars >>

\* time passes; only how Date.now() compares with the next_action_at of
\* a waiting record matters, so the clock moves to it and past it
Waiting == OpenIds # {} /\ ingestions[CurrentId].next_action \in { "rest", "backoff" } /\ now <= ingestions[CurrentId].next_action_at
AdvanceClock == /\ Waiting
                /\ \E t \in { ingestions[CurrentId].next_action_at, ingestions[CurrentId].next_action_at + 1 } : t > now /\ now' = t
                /\ UNCHANGED << configVars, storeVars, proc, tick, historyVars, bkVars >>

\* one step of one process's tick
TickStep(p) == \/ BeginTick(p) \/ GetCurrentIngestionRecord(p) \/ CreateProviderIngestionRecord(p) \/ Dispatch(p)
               \/ ClearFinishedIngestions(p) \/ SetProviderComplete(p) \/ SetProviderIngesting(p) \/ SetProviderCanceled(p)
               \/ SetProviderBursting(p) \/ GetLastMark(p) \/ FirstNext(p) \/ LoopNext(p)
               \/ CreateMark(p) \/ CreateMarkEntities(p) \/ ComputeRemoved(p) \/ ApplyMutation(p)
               \/ SetProviderResting(p) \/ SetProviderInterstitial(p)
               \/ SetProviderCanceling(p) \/ SetProviderBackoff(p)

Next == \/ \E p \in procs : TickStep(p)
        \/ \E p \in procs, e \in Errors : Fail(p, e)
        \/ \E p \in procs : Abort(p)
        \/ \E p \in procs : Kill(p)
        \/ AdvanceClock

Spec == Init /\ [][Next]_vars

\* ------------------------------ ticks in which no call fails, never aborted
\* the steps of a tick up to the end of a burst that no failure and no
\* abort cuts short
TickStepToRest(p) == \/ BeginTick(p) \/ GetCurrentIngestionRecord(p) \/ CreateProviderIngestionRecord(p) \/ Dispatch(p)
                     \/ SetProviderBursting(p) \/ GetLastMark(p) \/ FirstNext(p) \/ LoopNext(p)
                     \/ CreateMark(p) \/ CreateMarkEntities(p) \/ ComputeRemoved(p) \/ ApplyMutation(p)
                     \/ SetProviderResting(p)
\* and the steps of the tick that ends the rest period
TickStepFromRest(p) == ClearFinishedIngestions(p) \/ SetProviderComplete(p)

\* one process, no failure, no kill, a signal that is never aborted; the
\* scheduler keeps ticking and the clock keeps advancing
SomeTickStep == \E p \in procs : TickStepToRest(p) \/ TickStepFromRest(p)
NextLive == SomeTickStep \/ AdvanceClock
SpecLive == Init /\ [][NextLive]_vars /\ WF_vars(SomeTickStep) /\ WF_vars(AdvanceClock)

\* several processes run the engine for the same provider, each ticked by
\* its own scheduler
InitConc == /\ \E ob \in EngineBackoffOptions, rl \in RestLengths, n \in 1..MaxPages : Construct({1, 2}, ob, rl, n, EmptyPageOf(n))
            /\ InitStore
            /\ BkIdle
\* the processes work through the provider's first ingestion
NextConc == \E p \in procs : TickStepToRest(p)
SpecConc == InitConc /\ [][NextConc]_vars

\* the same processes on a store that is empty or holds a record whose
\* next_action is none of the values the switch knows
UnknownRecord == [next_action |-> "unknown", next_action_at |-> 0, attempts |-> 0, status |-> "interstitial", last_error |-> "", open |-> TRUE]
InitDefect == /\ \E ob \in EngineBackoffOptions, rl \in RestLengths, n \in 1..MaxPages : Construct({1, 2}, ob, rl, n, EmptyPageOf(n))
              /\ now = 0
              /\ ingestions \in { << >>, << UnknownRecord >> }
              /\ marks = << >> /\ markIds = 0 /\ applied = << >>
              /\ faults = 0 /\ cutAfterMark = FALSE /\ streak = 0
              /\ inFlight = NoneInFlight
              /\ BkIdle
SpecDefect == InitDefect /\ [][NextConc]_vars

\* ------------------------------------------- the backoff function on its own
\* the delay the catch clause computes for a record read with `attempts`
BkResult(table, attempts) == IF BackoffDefined(table, attempts) THEN [attempts |-> attempts, threw |-> FALSE, index |-> BackoffIndex(Len(table), attempts), delay |-> BackoffLength(table, attempts)] ELSE [attempts |-> attempts, threw |-> TRUE, index |-> BackoffIndex(Len(table), attempts), delay |-> 0]
InitBackoff == /\ bkOptions \in AllBackoffOptions
               /\ bkDelays = << >>
               /\ Construct({1}, bkOptions, CHOOSE rl \in RestLengths : TRUE, 1, 0)
               /\ InitStore
\* a burst fails on a record whose attempts is `a`
BkApply(a) == /\ Len(bkDelays) < 2
              /\ bkDelays' = Append(bkDelays, BkResult(backoff, a))
              /\ UNCHANGED << configVars, now, storeVars, proc, tick, historyVars, bkOptions >>
NextBackoff == \E a \in 0..MaxAttempts : BkApply(a)
SpecBackoff == InitBackoff /\ [][NextBackoff]_vars


\* ------------------------------------------------------------------ claims
\* the pages whose deltas reached the target store for an ingestion, in order
AppliedPagesOf(id) == LET mine == SelectSeq(applied, LAMBDA m : m.ingestion_id = id) IN [i \in 1..Len(mine) |-> mine[i].page]
\* the same, leaving out the empty answers the source gave when asked past
\* its last page
SourcePagesAppliedOf(id) == SelectSeq(AppliedPagesOf(id), LAMBDA page : page <= numPages)
\* the cursor of the mark an ingestion persisted last
LastPersistedCursor(id) == IF MarksOf(id) = << >> THEN NoCursor ELSE MarksOf(id)[Len(MarksOf(id))].cursor
IsRecord(i) == i \in 1..Len(ingestions)
AtRest(i) == IsRecord(i) /\ ingestions[i].open /\ ingestions[i].next_action = "rest"
AtIngest(i) == IsRecord(i) /\ ingestions[i].open /\ ingestions[i].next_action = "ingest"
\* a tick that is over, having returned to the scheduler
ReturnedTick(p) == proc[p].pc = "idle" /\ tick[p].outcome = "returned"
\* a call of p's tick threw inside the try block
ThrownInTry(p) == tick[p].error # NoError /\ tick[p].failedCall \in TryPcs
\* and the catch clause took what was thrown
CaughtInTry(p) == ThrownInTry(p) /\ tick[p].outcome \in { "running", "returned" }
InBurst(p) == proc[p].pc \in BurstPcs

\* C1: with ticks that keep coming, no failure and a rest length that runs
\* out, the provider's ingestion reaches rest, every ingestion that is at
\* ingest reaches rest, and after a rest a fresh record at ingest follows
C1_RestThenFreshCycle ==
  /\ <>AtRest(1)
  /\ \A i \in 1..MaxIngestions : AtIngest(i) ~> AtRest(i)
  /\ \A i \in 1..(MaxIngestions - 1) : AtRest(i) ~> AtIngest(i + 1)
C1_Witness == IsRecord(2) /\ ingestions[1].next_action = "nothing (done)" /\ AtRest(2) /\ AppliedPagesOf(2) # << >>

\* C2: the marks of an ingestion carry the sequences 0, 1, 2, ... in the
\* order they were persisted, with no gap and no duplicate, over every burst
\* that contributed; each fetched page, also one with no entity, has its one
\* mark once createMark returned; a burst's first mark takes the last mark's
\* sequence plus one, and 0 when there is none
C2_MarkSequencesContiguous ==
  /\ \A id \in 1..Len(ingestions) : \A i \in 1..Len(MarksOf(id)) :
        MarksOf(id)[i].sequence = i - 1 /\ MarksOf(id)[i].cursor = PageCursor(Min(i, numPages))
  /\ \A p \in procs :
        /\ proc[p].pc = "createMark" => (tick[p].fetched = tick[p].marked + 1 /\ proc[p].sequence = Len(MarksOf(Id(p))))
        /\ proc[p].pc \in (TryPcs \ { "createMark" }) => tick[p].fetched = tick[p].marked
        /\ (proc[p].pc = "createMark" /\ proc[p].count = 1) =>
              proc[p].sequence = IF MarksOf(Id(p)) = << >> THEN 0 ELSE MarksOf(Id(p))[Len(MarksOf(Id(p)))].sequence + 1
C2_Witness ==
  \E p \in procs :
    /\ faults >= 1 /\ tick[p].burst /\ ~tick[p].fresh /\ tick[p].marked >= 1
    /\ Len(MarksOf(Id(p))) >= 2
    /\ \E i \in 1..Len(marks) : marks[i].ingestion_id = Id(p) /\ marks[i].cursor = PageCursor(emptyPage) /\ marks[i].entities = << >>

\* C3 (as the specification states it): an ingestion that has come to rest
\* had the delta of each page of the source applied exactly once, whatever
\* failed on the way
C3_EveryPageAppliedOnceAtRest == \A id \in 1..Len(ingestions) : AtRest(id) => SourcePagesAppliedOf(id) = [i \in 1..numPages |-> i]

\* C4: a burst starts from the cursor of the last persisted mark, so a page
\* that was fetched and not marked when the process died is the page the
\* next burst fetches first; and as long as no tick was cut between a mark
\* and its delta, the pages of the source that were applied are 1, 2, 3, ...
\* with none skipped and none twice
C4_ResumeFromLastPersistedCursor ==
  /\ \A p \in procs : (proc[p].pc = "createMark" /\ proc[p].count = 1) =>
        /\ proc[p].cursor = LastPersistedCursor(Id(p))
        /\ proc[p].next.page = Min(Len(MarksOf(Id(p))), numPages) + 1
        /\ inFlight.ingestion_id = Id(p) => proc[p].next.page = inFlight.page
  /\ ~cutAfterMark => \A id \in 1..Len(ingestions) : \A i \in 1..Len(SourcePagesAppliedOf(id)) : SourcePagesAppliedOf(id)[i] = i
C4_Witness ==
  \E p \in procs :
    /\ proc[p].pc = "createMark" /\ proc[p].count = 1 /\ ~cutAfterMark
    /\ inFlight.ingestion_id = Id(p) /\ inFlight.page >= 2 /\ proc[p].next.page = inFlight.page
    /\ AppliedPagesOf(Id(p)) # << >>

C6_DelayClampedAndMonotone ==
  (Len(backoff) > 0 /\ \A i, j \in 1..Len(backoff) : i <= j => AsMilliseconds(backoff[i]) <= AsMilliseconds(backoff[j])) =>
    /\ \A k \in 1..Len(bkDelays) :
          /\ ~bkDelays[k].threw
          /\ bkDelays[k].delay = AsMilliseconds(backoff[(IF bkDelays[k].attempts < Len(backoff) - 1 THEN bkDelays[k].attempts ELSE Len(backoff) - 1) + 1])
          /\ bkDelays[k].attempts >= Len(backoff) - 1 => bkDelays[k].delay = AsMilliseconds(backoff[Len(backoff)])
    /\ \A k, l \in 1..Len(bkDelays) : bkDelays[k].attempts <= bkDelays[l].attempts => bkDelays[k].delay <= bkDelays[l].delay
    /\ bkOptions = NotGiven => \A k \in 1..Len(bkDelays) :
          /\ bkDelays[k].attempts = 0 => bkDelays[k].delay = 60000
          /\ bkDelays[k].attempts = 3 => bkDelays[k].delay = 10800000
          /\ bkDelays[k].attempts = 10 => bkDelays[k].delay = 10800000
C6_Witness ==
  /\ bkOptions = NotGiven /\ Len(bkDelays) = 2
  /\ bkDelays[1].attempts = 3 /\ bkDelays[1].delay = 10800000
  /\ bkDelays[2].attempts = 10 /\ bkDelays[2].delay = 10800000

\* C7: a cancellation failure thrown by the burst is never sent to backoff;
\* once the tick returned the record's next action is cancel and its
\* attempts are the attempts the tick read, whatever they were
C7_CancellationGoesToCancel ==
  \A p \in procs : (CaughtInTry(p) /\ tick[p].error.kind = "cancellation") =>
    /\ proc[p].pc # "setProviderBackoff"
    /\ Running(p) => proc[p].pc = "setProviderCanceling"
    /\ ReturnedTick(p) =>
          /\ tick[p].writes[Len(tick[p].writes)] = "setProviderCanceling"
          /\ ingestions[tick[p].ingestionId].next_action = "cancel"
          /\ ingestions[tick[p].ingestionId].attempts = tick[p].attempts
C7_Witness ==
  \E p \in procs :
    /\ CaughtInTry(p) /\ tick[p].error.kind = "cancellation" /\ ReturnedTick(p)
    /\ tick[p].attempts >= 1
    /\ ingestions[tick[p].ingestionId].next_action = "cancel"

\* C8: a tick that finds the record at rest with now <= next_action_at, the
\* equal case too, writes nothing, runs no burst and leaves the record as it
\* was; a tick purges and completes only when now > next_action_at
C8_RestWaitsUntilStrictlyAfter ==
  \A p \in procs : tick[p].action = "rest" =>
    /\ proc[p].pc \in { "clearFinishedIngestions", "setProviderComplete" } => tick[p].dispatchNow > tick[p].deadline
    /\ (ReturnedTick(p) /\ tick[p].dispatchNow <= tick[p].deadline) =>
          /\ tick[p].writes = << >> /\ ~tick[p].burst /\ tick[p].fetched = 0 /\ tick[p].marked = 0
          /\ AtRest(tick[p].ingestionId)
          /\ ingestions[tick[p].ingestionId].next_action_at = tick[p].deadline
    /\ (ReturnedTick(p) /\ tick[p].dispatchNow > tick[p].deadline) =>
          /\ tick[p].writes = << "clearFinishedIngestions", "setProviderComplete" >>
          /\ ~ingestions[tick[p].ingestionId].open
C8_Witness ==
  \E p \in procs :
    /\ tick[p].action = "rest" /\ ReturnedTick(p)
    /\ tick[p].dispatchNow = tick[p].deadline /\ tick[p].writes = << >>
    /\ AtRest(tick[p].ingestionId)

\* C9: one tick on a fresh ingestion of an N-page source, with no failure
\* and no abort, applies N deltas in page order; every delta but the last
\* carries what the reconciliation query answered; the last was not queried
\* and removes nothing; the record ends at rest until now + restLength
C9_FreshIngestionInOneTick ==
  \A p \in procs : (ReturnedTick(p) /\ tick[p].action = "ingest" /\ tick[p].fresh /\ tick[p].error = NoError /\ ~tick[p].sawAbort) =>
    /\ tick[p].fetched = numPages /\ tick[p].marked = numPages
    /\ Len(applied) = numPages
    /\ \A i \in 1..Len(applied) :
          /\ applied[i].page = i /\ applied[i].ingestion_id = tick[p].ingestionId /\ applied[i].type = "delta"
          /\ applied[i].added = Tag(PageEntities(i))
          /\ i < numPages => (applied[i].queried /\ applied[i].removed = applied[i].reconciled)
          /\ i = numPages => (~applied[i].queried /\ applied[i].removed = << >>)
    /\ AtRest(tick[p].ingestionId)
    /\ ingestions[tick[p].ingestionId].next_action_at = tick[p].writeNow + AsMilliseconds(restLength)
    /\ tick[p].writes[Len(tick[p].writes)] = "setProviderResting"
C9_Witness ==
  \E p \in procs :
    /\ ReturnedTick(p) /\ tick[p].action = "ingest" /\ tick[p].fresh /\ tick[p].error = NoError /\ ~tick[p].sawAbort
    /\ numPages >= 2 /\ Len(applied) = numPages
    /\ applied[1].removed # << >> /\ applied[numPages].removed = << >>
    /\ AtRest(tick[p].ingestionId)

RecordCalls == { "getCurrentIngestionRecord", "createProviderIngestionRecord", "setProviderBursting", "setProviderResting", "setProviderInterstitial", "setProviderIngesting", "setProviderComplete", "setProviderCanceled", "setProviderCanceling", "setProviderBackoff" }
\* the next actions the switch of handleNextAction has a case for
KnownActions == { "rest", "ingest", "backoff", "cancel" }

\* C11 (as the specification states it): when a call that reads or writes
\* the ingestion record throws, the tick raises it to the scheduler and
\* turns it into neither a backoff nor a cancel transition
C11_RecordFailuresPropagate ==
  \A p \in procs : (tick[p].error # NoError /\ tick[p].failedCall \in RecordCalls) =>
    /\ tick[p].outcome = "raised"
    /\ proc[p].pc \notin { "setProviderBackoff", "setProviderCanceling" }

\* C12: a tick that reads a record with a next action the switch does not
\* know, or that finds no record and is answered nothing by the create call,
\* returns without raising, having written nothing to the record store, run
\* no burst and applied nothing to the target store
C12_DefectTickDoesNothing ==
  \A p \in procs :
    /\ (tick[p].outcome # "none" /\ tick[p].action \notin (KnownActions \cup { "" })) => (ReturnedTick(p) /\ ingestions[tick[p].ingestionId] = UnknownRecord)
    /\ (tick[p].outcome \in { "returned", "raised" } /\ tick[p].action \notin KnownActions) =>
          /\ ReturnedTick(p)
          /\ tick[p].writes = << >> /\ ~tick[p].burst
          /\ tick[p].fetched = 0 /\ tick[p].marked = 0 /\ tick[p].deltas = 0
C12_Witness ==
  \E p, q \in procs :
    /\ ReturnedTick(p) /\ tick[p].action = "" /\ tick[p].writes = << >>
    /\ tick[q].writes # << >> /\ tick[q].writes[1] = "createProviderIngestionRecord"
    /\ IsRecord(1) /\ ~IsRecord(2)


\* the burst of p's tick is over and handleNextAction is about to record it
BurstOver(p) == proc[p].pc \in { "setProviderResting", "setProviderInterstitial" }

\* C13 (as the specification states it): the page a burst ends with, be it
\* the done page or the page after which the aborted signal was seen, was
\* applied without the reconciliation query and with removed = << >>
C13_FinalPageOfBurstNotReconciled ==
  \A p \in procs : (BurstOver(p) /\ applied # << >>) =>
    /\ ~applied[Len(applied)].queried
    /\ applied[Len(applied)].removed = << >>


\* C14: the signal is read only after a page was marked and applied: with no
\* failure every page fetched in a tick was marked and applied; once the
\* loop has read the signal as aborted the burst is over and fetches nothing
\* more; a burst whose signal was aborted before its first fetch returned
\* fetches, marks and applies one page
C14_AbortReadBetweenFetches ==
  \A p \in procs :
    /\ (ReturnedTick(p) /\ tick[p].burst /\ tick[p].error = NoError) => (tick[p].fetched = tick[p].marked /\ tick[p].marked = tick[p].deltas /\ tick[p].deltas >= 1)
    /\ (Running(p) /\ tick[p].sawAbort) => ~InBurst(p)
    /\ tick[p].sawAbort => tick[p].fetched = tick[p].deltas
    /\ tick[p].earlyAbort => tick[p].fetched <= 1
    /\ (ReturnedTick(p) /\ tick[p].earlyAbort /\ tick[p].error = NoError) => (tick[p].fetched = 1 /\ tick[p].marked = 1 /\ tick[p].deltas = 1 /\ tick[p].sawAbort)
C14_Witness ==
  \E p \in procs :
    /\ ReturnedTick(p) /\ tick[p].earlyAbort /\ tick[p].error = NoError
    /\ numPages >= 2 /\ tick[p].fetched = 1 /\ tick[p].deltas = 1
    /\ applied[Len(applied)].page < numPages


\* C15: a burst that caught no error and stopped at the aborted signal
\* after a page that was not done leaves the record at ingest, status
\* interstitial, with attempts not raised; the burst of a later tick starts
\* with the page after the last marked one
C15_AbortedBurstStaysAtIngest ==
  \A p \in procs :
    /\ (ReturnedTick(p) /\ tick[p].burst /\ tick[p].error = NoError /\ tick[p].sawAbort /\ applied[Len(applied)].page < numPages) =>
          /\ tick[p].writes[Len(tick[p].writes)] = "setProviderInterstitial"
          /\ AtIngest(tick[p].ingestionId)
          /\ ingestions[tick[p].ingestionId].status = "interstitial"
          /\ ingestions[tick[p].ingestionId].attempts <= tick[p].attempts
          /\ Len(MarksOf(tick[p].ingestionId)) = applied[Len(applied)].page
    /\ (proc[p].pc = "createMark" /\ proc[p].count = 1 /\ ~tick[p].fresh) => proc[p].next.page = Min(Len(MarksOf(Id(p))), numPages) + 1
C15_Witness ==
  \E p \in procs :
    /\ ReturnedTick(p) /\ tick[p].burst /\ tick[p].error = NoError /\ tick[p].sawAbort
    /\ applied[Len(applied)].page < numPages
    /\ AtIngest(tick[p].ingestionId)
    /\ tick[p].attempts >= 1 /\ ingestions[tick[p].ingestionId].attempts = 0


\* C16: a tick that reads a record at backoff runs no burst; with now <=
\* next_action_at it writes nothing and leaves the record as it was; with
\* now > next_action_at its one write sets the same record back to ingest,
\* and the burst that follows starts from that ingestion's last mark
C16_BackoffTickOnlyResumes ==
  \A p \in procs :
    /\ tick[p].action = "backoff" =>
          /\ ~tick[p].burst /\ tick[p].fetched = 0 /\ tick[p].marked = 0 /\ tick[p].deltas = 0
          /\ proc[p].pc = "setProviderIngesting" => tick[p].dispatchNow > tick[p].deadline
          /\ (ReturnedTick(p) /\ tick[p].dispatchNow <= tick[p].deadline) =>
                /\ tick[p].writes = << >>
                /\ ingestions[tick[p].ingestionId].open /\ ingestions[tick[p].ingestionId].next_action = "backoff"
                /\ ingestions[tick[p].ingestionId].next_action_at = tick[p].deadline
                /\ ingestions[tick[p].ingestionId].attempts = tick[p].attempts
          /\ (ReturnedTick(p) /\ tick[p].dispatchNow > tick[p].deadline) =>
                /\ tick[p].writes = << "setProviderIngesting" >>
                /\ AtIngest(tick[p].ingestionId)
                /\ ingestions[tick[p].ingestionId].attempts = tick[p].attempts
    /\ (proc[p].pc = "createMark" /\ proc[p].count = 1 /\ tick[p].attempts >= 1) =>
          /\ proc[p].cursor = LastPersistedCursor(Id(p))
          /\ proc[p].sequence = Len(MarksOf(Id(p)))
C16_Witness ==
  \E p \in procs :
    /\ tick[p].action = "backoff" /\ ReturnedTick(p) /\ tick[p].dispatchNow > tick[p].deadline
    /\ tick[p].writes = << "setProviderIngesting" >>
    /\ AtIngest(tick[p].ingestionId) /\ MarksOf(tick[p].ingestionId) # << >>


Canceled(i) == IsRecord(i) /\ ingestions[i].next_action = "nothing (canceled)"

\* C17: a tick that reads a record at cancel runs no burst and its one
\* write finishes the cancellation; no burst ever works on a finished
\* record; the first burst of the record created after a canceled one asks
\* for the first page with no cursor and marks it with sequence 0, whatever
\* marks the canceled ingestion left
C17_CancelTickThenNewIdentity ==
  \A p \in procs :
    /\ tick[p].action = "cancel" =>
          /\ ~tick[p].burst /\ tick[p].fetched = 0 /\ tick[p].marked = 0 /\ tick[p].deltas = 0
          /\ ReturnedTick(p) => (tick[p].writes = << "setProviderCanceled" >> /\ Canceled(tick[p].ingestionId))
    /\ InBurst(p) => ingestions[Id(p)].open
    /\ (proc[p].pc = "createMark" /\ proc[p].count = 1 /\ Canceled(Id(p) - 1) /\ MarksOf(Id(p)) = << >>) =>
          /\ proc[p].cursor = NoCursor
          /\ proc[p].sequence = 0
          /\ proc[p].next.page = 1
C17_Witness ==
  \E p \in procs :
    /\ proc[p].pc = "createMark" /\ proc[p].count = 1 /\ Id(p) = 2
    /\ Canceled(1) /\ MarksOf(1) # << >> /\ MarksOf(2) = << >>
    /\ proc[p].cursor = NoCursor /\ proc[p].sequence = 0


\* C18 (as the specification states it): a failure in the try block that is
\* not of the cancellation kind goes to backoff and raises attempts,
\* whatever its message says
C18_OnlyCancellationKindCancels ==
  \A p \in procs : (CaughtInTry(p) /\ tick[p].error.kind # "cancellation") =>
    /\ proc[p].pc # "setProviderCanceling"
    /\ ReturnedTick(p) =>
          /\ ingestions[tick[p].ingestionId].next_action = "backoff"
          /\ ingestions[tick[p].ingestionId].attempts = tick[p].attempts + 1

\* the mark of the source's done page has been persisted for the ingestion
DoneMarked(id) == Len(MarksOf(id)) >= numPages

\* C19 (as the specification states it): once the mark of the done page is
\* persisted for an ingestion, no page is fetched and no mark is persisted
\* for it any more
C19_NothingAfterDoneMark ==
  /\ \A id \in 1..Len(ingestions) : Len(MarksOf(id)) <= numPages
  /\ \A p \in procs : (Running(p) /\ DoneMarked(Id(p))) => proc[p].pc \notin { "firstNext", "loopNext", "createMark" }

\* C20 (as the specification states it): whatever table the caller gave,
\* the empty one too, the index the catch clause reads the table at lies
\* in 0 .. len - 1
C20_IndexWithinTable ==
  \A k \in 1..Len(bkDelays) : bkDelays[k].index >= 0 /\ bkDelays[k].index <= Len(backoff) - 1

====
